---- MODULE Spec2Model ----
(***************************************************************************)
(* Model of the GIF conversion pipeline of the Image Assembly API:         *)
(* GifService (src/src/services/gifService.js), the /gif route and its     *)
(* validation middleware (src/deploy-to-render.md) and the upload of the   *)
(* storage service (src/src/middleware/errorHandler.js).                   *)
(*                                                                         *)
(* Every `await` of the source is a suspension point, so every action      *)
(* below is the code that runs between two suspension points.  The file    *)
(* system, the external tools and the image decoder are the environment:   *)
(* each of their calls may succeed or fail.                                *)
(***************************************************************************)
EXTENDS Integers, Sequences, FiniteSets, TLC

(***************************************************************************)
(* Bounds of the model.                                                    *)
(***************************************************************************)
MaxImages == 2

Jobs == {"j1", "j2"}

\* the jobs that run under Spec: one createGif call beside the probe
SoloJobs == {"j1"}

\* raw input images; "bad" is a buffer the decoder rejects
Images == {"img1", "img2", "bad"}

Decodable(img) == img # "bad"

RECURSIVE SeqsUpTo(_, _)
SeqsUpTo(S, n) ==
    IF n = 0 THEN {<< >>}
    ELSE LET shorter == SeqsUpTo(S, n - 1)
         IN  shorter \cup {Append(s, x) : s \in {t \in shorter : Len(t) = n - 1}, x \in S}

ImageSeqs == SeqsUpTo(Images, MaxImages)

\* values a caller can pass as options.quality; "absent" is a missing key
Qualities == {"absent", "low", "medium", "high", "ultra", "LOW", "best",
              "constructor", "toString", "__proto__"}

Routes == {"direct", "gif"}

\* values of options.delay: the README's example, the default, a slower one
Delays == {1500, 2000, 3000}

VARIABLES
    host,             \* which external tools the host really has
    ffmpegPath,       \* this.ffmpegPath
    hasImageMagick,   \* this.hasImageMagick
    depPc,            \* position of checkDependencies
    dirs,             \* workspace directories that exist under this.tempDir
    files,            \* files in them: records [dir, name, data]
    log,              \* what console.error has logged, per job
    pc,               \* position of each job
    route,            \* how the job entered: a direct call or the /gif route
    images,           \* the input sequence
    quality,          \* options.quality as passed
    delay,            \* options.delay, in milliseconds
    preset,           \* the object `preset` refers to
    processedFrames,  \* preprocessFrames' local array
    frameFiles,       \* saveFramesToDisk's local array
    idx,              \* loop index of the running loop
    backend,          \* the branch createGif took at lines 105-111
    invoked,          \* history: backends invoked, in order
    execs,            \* history: external commands run, in order
    pending,          \* completion of the try block, held while finally runs
    result,           \* outcome of createGif as its caller sees it
    listing,          \* cleanup's `files` still to unlink
    cleanupCalls,     \* history: number of calls of cleanup
    cleanupAt,        \* history: the job's position when cleanup was called
    response,         \* what the route answered
    pdfPc,            \* position of the job's document pipeline
    pdfImages,        \* createPdf's `images`: the pages to embed
    pdfOpt,           \* createPdf's options: format, margin, optimize
    pageSize,         \* createPdf's pageSize
    pdfIdx,           \* loop index of createPdf
    pdfPages,         \* the pages added to pdfDoc, in order
    pdfResult,        \* outcome of createPdf / createComicPdf
    panelsPerPage,    \* createComicPdf's option
    comicI,           \* loop index of createComicPdf
    comicTurns,       \* iterations of that loop so far, modulo 2
    groupedImages,    \* createComicPdf's groupedImages
    joined,           \* the Promise.all of the /both handler
    published,        \* artifacts storageService.upload has stored
    hpc,              \* position of the handler of /both or /from-urls
    uploads           \* the handler's calls of storageService.upload

svcVars == <<host, ffmpegPath, hasImageMagick, depPc>>
fsVars  == <<dirs, files>>
inVars  == <<route, images, quality, delay, preset>>
runVars == <<processedFrames, frameFiles, idx, backend, invoked, execs>>
endVars == <<pending, result, listing, cleanupCalls, cleanupAt, response, log>>
docVars == <<pdfPc, pdfImages, pdfOpt, pageSize, pdfIdx, pdfPages, pdfResult,
             panelsPerPage, comicI, comicTurns, groupedImages>>
pubVars == <<joined, published, hpc, uploads>>
vars    == <<svcVars, fsVars, pc, inVars, runVars, endVars, docVars, pubVars>>


(***************************************************************************)
(* Values shared by the actions.                                           *)
(***************************************************************************)
NoBuffer == [fmt |-> "none", backend |-> "none", frames |-> << >>]

NoCompletion == [kind |-> "none", buffer |-> NoBuffer, err |-> "none"]

Return(buf) == [kind |-> "return", buffer |-> buf, err |-> "none"]

Throw(e) == [kind |-> "throw", buffer |-> NoBuffer, err |-> e]

NoResponse == [status |-> 0, success |-> FALSE, frames |-> 0, error |-> "none"]

FileName(kind, i) == [kind |-> kind, i |-> i]

\* path.join(dir, name)
FilePath(dir, name) == [dir |-> dir, name |-> name]

(***************************************************************************)
(* Quality presets (createGif, lines 56-88).                               *)
(***************************************************************************)
Tiers == {"low", "medium", "high", "ultra"}

qualityPresets ==
    [low    |-> [colors |-> 64,  dither |-> "FloydSteinberg", effort |-> 3,
                 compressionLevel |-> 9, method |-> "fast"],
     medium |-> [colors |-> 128, dither |-> "FloydSteinberg", effort |-> 5,
                 compressionLevel |-> 6, method |-> "balanced"],
     high   |-> [colors |-> 256, dither |-> "FloydSteinberg", effort |-> 8,
                 compressionLevel |-> 3, method |-> "quality"],
     ultra  |-> [colors |-> 256, dither |-> "none", effort |-> 10,
                 compressionLevel |-> 0, method |-> "maximum"]]

\* qualityPresets is an object literal: besides its four own keys, a lookup
\* finds what every object inherits from Object.prototype
ObjectPrototypeKeys ==
    {"constructor", "toString", "toLocaleString", "valueOf", "hasOwnProperty",
     "isPrototypeOf", "propertyIsEnumerable", "__proto__"}

\* qualityPresets[key]: the object the lookup yields.  A bundle is named by
\* its tier, an inherited member by "Object.prototype.<key>".
PropertyLookup(key) ==
    IF key \in Tiers THEN key
    ELSE IF key \in ObjectPrototypeKeys THEN "Object.prototype." \o key
    ELSE "undefined"

\* `quality = 'ultra'` in the destructuring: the default replaces a missing key
DefaultQuality(q) == IF q = "absent" THEN "ultra" ELSE q

\* const preset = qualityPresets[quality] || qualityPresets.ultra;
\* only undefined is falsy among the values a lookup yields
ResolvePreset(q) ==
    LET found == PropertyLookup(DefaultQuality(q))
    IN  IF found = "undefined" THEN "ultra" ELSE found

\* preset.dither and preset.colors as a command line prints them
PresetDither(p) == IF p \in Tiers THEN qualityPresets[p].dither ELSE "undefined"

ColorsArg(p) == IF p \in Tiers THEN ToString(qualityPresets[p].colors) ELSE "undefined"

\* `delay = 2000` in the destructuring of createGif
DefaultDelay == 2000

\* Math.round(n / d) for d > 0: the nearest integer, a half rounded up
Round(n, d) == (2 * n + d) \div (2 * d)

\* const fps = Math.round(1000 / delay) (line 204)
Fps(d) == Round(1000, d)

\* preset.method, undefined on an object that is no bundle
PresetMethod(p) == IF p \in Tiers THEN qualityPresets[p].method ELSE "undefined"

(***************************************************************************)
(* Initial values of the document pipeline (pdfService.js).                *)
(***************************************************************************)
\* the defaults of createPdf's destructuring (lines 33-40)
DefaultPdfOptions == [format |-> "A4", margin |-> 0, optimize |-> TRUE]

NoPageSize == [w |-> 0, h |-> 0]

\* storageService.upload was called for neither artifact
NoUploads == [gif |-> "none", pdf |-> "none"]

NoDocument == [kind |-> "none", pages |-> << >>, err |-> "none"]

\* `panelsPerPage = 2` in the destructuring of createComicPdf (line 267)
DefaultPanelsPerPage == 2

(***************************************************************************)
(* The state after `new GifService()`: the constructor has called          *)
(* checkDependencies without awaiting it, so the probe is suspended at its *)
(* first `which` and both fields are still undefined.                      *)
(***************************************************************************)
Init ==
    /\ host \in [ffmpeg : BOOLEAN, convert : BOOLEAN]
    /\ ffmpegPath = "undefined"
    /\ hasImageMagick = "undefined"
    /\ depPc = "whichFFmpeg"
    /\ dirs = {}
    /\ files = {}
    /\ log = [j \in Jobs |-> << >>]
    /\ pc = [j \in Jobs |-> "idle"]
    /\ route = [j \in Jobs |-> "none"]
    /\ images = [j \in Jobs |-> << >>]
    /\ quality = [j \in Jobs |-> "absent"]
    /\ delay = [j \in Jobs |-> DefaultDelay]
    /\ preset = [j \in Jobs |-> "undefined"]
    /\ processedFrames = [j \in Jobs |-> << >>]
    /\ frameFiles = [j \in Jobs |-> << >>]
    /\ idx = [j \in Jobs |-> 0]
    /\ backend = [j \in Jobs |-> "none"]
    /\ invoked = [j \in Jobs |-> << >>]
    /\ execs = [j \in Jobs |-> << >>]
    /\ pending = [j \in Jobs |-> NoCompletion]
    /\ result = [j \in Jobs |-> NoCompletion]
    /\ listing = [j \in Jobs |-> << >>]
    /\ cleanupCalls = [j \in Jobs |-> 0]
    /\ cleanupAt = [j \in Jobs |-> "none"]
    /\ response = [j \in Jobs |-> NoResponse]
    /\ pdfPc = [j \in Jobs |-> "idle"]
    /\ pdfImages = [j \in Jobs |-> << >>]
    /\ pdfOpt = [j \in Jobs |-> DefaultPdfOptions]
    /\ pageSize = [j \in Jobs |-> NoPageSize]
    /\ pdfIdx = [j \in Jobs |-> 0]
    /\ pdfPages = [j \in Jobs |-> << >>]
    /\ pdfResult = [j \in Jobs |-> NoDocument]
    /\ panelsPerPage = [j \in Jobs |-> DefaultPanelsPerPage]
    /\ comicI = [j \in Jobs |-> 0]
    /\ comicTurns = [j \in Jobs |-> 0]
    /\ groupedImages = [j \in Jobs |-> << >>]
    /\ joined = [j \in Jobs |-> NoCompletion]
    /\ published = {}
    /\ hpc = [j \in Jobs |-> "idle"]
    /\ uploads = [j \in Jobs |-> NoUploads]

(***************************************************************************)
(* checkDependencies (lines 20-37).                                        *)
(***************************************************************************)
\* `which ffmpeg` settles: lines 22-28
WhichFFmpegDone ==
    /\ depPc = "whichFFmpeg"
    /\ ffmpegPath' = IF host.ffmpeg THEN "/usr/bin/ffmpeg" ELSE "null"
    /\ depPc' = "whichConvert"
    /\ UNCHANGED <<docVars, host, hasImageMagick, fsVars, pc, inVars, runVars, endVars>>

\* `which convert` settles: lines 30-36
WhichConvertDone ==
    /\ depPc = "whichConvert"
    /\ hasImageMagick' = IF host.convert THEN "true" ELSE "false"
    /\ depPc' = "done"
    /\ UNCHANGED <<docVars, host, ffmpegPath, fsVars, pc, inVars, runVars, endVars>>

checkDependencies == WhichFFmpegDone \/ WhichConvertDone

\* truthiness of the two cached fields, as the `if` of lines 105-107 reads them
Truthy(v) == v \notin {"undefined", "null", "false"}

(***************************************************************************)
(* Entering createGif (lines 45-93): options, preset, session directory.   *)
(***************************************************************************)
\* a variant of SessionId in which every invocation gets the same identifier
SessionIdShared(j) == "j1"

\* sessionId = uuidv4(): a name no other job has
SessionId(j) == j

\* the synchronous prefix of createGif, up to the suspension at fs.mkdir
EnterCreateGif(j, r, imgs, q) ==
    /\ route' = [route EXCEPT ![j] = r]
    /\ images' = [images EXCEPT ![j] = imgs]
    /\ quality' = [quality EXCEPT ![j] = q]
    /\ preset' = [preset EXCEPT ![j] = ResolvePreset(q)]
    /\ \E d \in Delays : delay' = [delay EXCEPT ![j] = d]
    /\ pc' = [pc EXCEPT ![j] = "mkdir"]

\* a caller of the service calls createGif(images, {quality}) itself
CallCreateGif(j) ==
    /\ pc[j] = "idle"
    /\ \E imgs \in ImageSeqs, q \in Qualities : EnterCreateGif(j, "direct", imgs, q)
    /\ UNCHANGED <<docVars, svcVars, fsVars, runVars, endVars>>

(***************************************************************************)
(* The try / finally of createGif (lines 95-119).                          *)
(***************************************************************************)
\* a variant of EnterFinally that cleans up after a return only: a throw
\* leaves createGif at once
EnterFinallyOnReturnOnly(j, c) ==
    IF c.kind = "return"
    THEN /\ pending' = [pending EXCEPT ![j] = c]
         /\ cleanupCalls' = [cleanupCalls EXCEPT ![j] = @ + 1]
         /\ cleanupAt' = [cleanupAt EXCEPT ![j] = pc[j]]
         /\ pc' = [pc EXCEPT ![j] = "cleanup_readdir"]
         /\ UNCHANGED result
    ELSE /\ pending' = [pending EXCEPT ![j] = c]
         /\ result' = [result EXCEPT ![j] = c]
         /\ pc' = [pc EXCEPT ![j] = "returned"]
         /\ UNCHANGED <<cleanupCalls, cleanupAt>>

\* the try block completes with `c` (a return or a throw) and control enters
\* finally, which calls cleanup(tempDir): lines 116-118
EnterFinally(j, c) ==
    /\ pending' = [pending EXCEPT ![j] = c]
    /\ cleanupCalls' = [cleanupCalls EXCEPT ![j] = @ + 1]
    /\ cleanupAt' = [cleanupAt EXCEPT ![j] = pc[j]]
    /\ pc' = [pc EXCEPT ![j] = "cleanup_readdir"]
    /\ UNCHANGED result

\* await fs.mkdir(tempDir, { recursive: true }) settles (line 93); it stands
\* before the try, so its failure leaves createGif without running finally
Mkdir(j) ==
    /\ pc[j] = "mkdir"
    /\ \/ /\ dirs' = dirs \cup {SessionId(j)}
          /\ pc' = [pc EXCEPT ![j] = "preprocess"]
          /\ idx' = [idx EXCEPT ![j] = 0]
          /\ UNCHANGED <<result>>
       \/ /\ result' = [result EXCEPT ![j] = Throw("mkdir")]
          /\ pc' = [pc EXCEPT ![j] = "returned"]
          /\ UNCHANGED <<dirs, idx>>
    /\ UNCHANGED <<docVars, svcVars, files, inVars, processedFrames, frameFiles, backend,
                   invoked, execs, pending, listing, cleanupCalls, cleanupAt,
                   response, log>>

(***************************************************************************)
(* preprocessFrames (lines 125-178).                                       *)
(***************************************************************************)
\* the enhancement the preset's method selects: lines 151-163
Enhancement(m) ==
    IF m = "maximum" THEN "sharpen+saturate"
    ELSE IF m = "quality" THEN "normalize"
    ELSE "none"

\* the buffer one loop iteration produces from images[i]: lines 132-172
CanonicalFrame(img, p) == [src |-> img, enh |-> Enhancement(PresetMethod(p))]

\* a variant of PushFrame that adds the frame at the front
UnshiftFrame(frames, f) == <<f>> \o frames

\* processedFrames.push(buffer): line 174
PushFrame(frames, f) == Append(frames, f)

\* a variant of PreprocessFrame that skips an undecodable image and goes on
PreprocessFrameSkipping(j) ==
    /\ pc[j] = "preprocess"
    /\ idx[j] < Len(images[j])
    /\ LET img == images[j][idx[j] + 1]
       IN  processedFrames' = [processedFrames EXCEPT
               ![j] = IF Decodable(img)
                      THEN PushFrame(@, CanonicalFrame(img, preset[j]))
                      ELSE @]
    /\ idx' = [idx EXCEPT ![j] = @ + 1]
    /\ UNCHANGED <<docVars, svcVars, fsVars, pc, inVars, frameFiles, backend, invoked, execs,
                   endVars>>

\* one iteration of the loop: metadata() rejects an undecodable buffer, and
\* the rejection leaves preprocessFrames and the try block
PreprocessFrame(j) ==
    /\ pc[j] = "preprocess"
    /\ idx[j] < Len(images[j])
    /\ LET img == images[j][idx[j] + 1]
       IN  IF Decodable(img)
           THEN /\ processedFrames' = [processedFrames EXCEPT
                        ![j] = PushFrame(@, CanonicalFrame(img, preset[j]))]
                /\ idx' = [idx EXCEPT ![j] = @ + 1]
                /\ UNCHANGED <<pc, pending, cleanupCalls, cleanupAt, result>>
           ELSE /\ EnterFinally(j, Throw("decode"))
                /\ UNCHANGED <<processedFrames, idx>>
    /\ UNCHANGED <<docVars, svcVars, fsVars, inVars, frameFiles, backend, invoked, execs,
                   listing, response, log>>

\* the loop is over: return processedFrames, and createGif calls
\* saveFramesToDisk(processedFrames, tempDir) (line 100)
PreprocessReturn(j) ==
    /\ pc[j] = "preprocess"
    /\ idx[j] = Len(images[j])
    /\ pc' = [pc EXCEPT ![j] = "save"]
    /\ idx' = [idx EXCEPT ![j] = 0]
    /\ UNCHANGED <<docVars, svcVars, fsVars, inVars, processedFrames, frameFiles, backend,
                   invoked, execs, endVars>>

preprocessFrames(j) == PreprocessFrame(j) \/ PreprocessReturn(j)

(***************************************************************************)
(* saveFramesToDisk (lines 183-194).                                       *)
(***************************************************************************)
PngOf(frame) == [fmt |-> "png", backend |-> "none", frames |-> <<frame>>]

\* `frame_${String(i).padStart(4, '0')}.png` for the loop index i
FrameFileName(i) == FileName("frame", i)

\* fs.writeFile(filepath, data): creates the file or replaces its content
WriteFile(fs, dir, name, data) ==
    {f \in fs : ~(f.dir = dir /\ f.name = name)}
        \cup {[dir |-> dir, name |-> name, data |-> data]}

\* one iteration of the loop; writeFile may fail (and does if the directory
\* is gone), which leaves saveFramesToDisk and the try block
SaveFrame(j) ==
    /\ pc[j] = "save"
    /\ idx[j] < Len(processedFrames[j])
    /\ \/ /\ SessionId(j) \in dirs
          /\ files' = WriteFile(files, SessionId(j), FrameFileName(idx[j]),
                                PngOf(processedFrames[j][idx[j] + 1]))
          /\ frameFiles' = [frameFiles EXCEPT
                  ![j] = Append(@, FilePath(SessionId(j), FrameFileName(idx[j])))]
          /\ idx' = [idx EXCEPT ![j] = @ + 1]
          /\ UNCHANGED <<pc, pending, cleanupCalls, cleanupAt, result>>
       \/ /\ EnterFinally(j, Throw("write"))
          /\ UNCHANGED <<files, frameFiles, idx>>
    /\ UNCHANGED <<docVars, svcVars, dirs, inVars, processedFrames, backend, invoked, execs,
                   listing, response, log>>

(***************************************************************************)
(* Backend selection (createGif, lines 102-111).                           *)
(***************************************************************************)
\* a variant of ChooseBackend that tests ImageMagick first
ChooseBackendSwapped(fp, im) ==
    IF Truthy(im) THEN "imagemagick"
    ELSE IF Truthy(fp) THEN "ffmpeg"
    ELSE "sharp"

\* the branch the if / else if / else takes for the cached fields as read
ChooseBackend(fp, im) ==
    IF Truthy(fp) THEN "ffmpeg"
    ELSE IF Truthy(im) THEN "imagemagick"
    ELSE "sharp"

\* a variant of FirstStep in which ffmpeg always takes the single-pass branch
FirstStepSinglePassOnly(b, p) ==
    IF b = "ffmpeg" THEN "ffmpeg_single"
    ELSE IF b = "imagemagick" THEN "convert_exec"
    ELSE "sharp_encode"

\* where the chosen backend suspends first: createGifWithFFmpeg branches on
\* preset.method (line 206) before its first exec
FirstStep(b, p) ==
    IF b = "ffmpeg"
    THEN (IF PresetMethod(p) = "maximum" THEN "ffmpeg_palettegen" ELSE "ffmpeg_single")
    ELSE IF b = "imagemagick" THEN "convert_exec"
    ELSE "sharp_encode"

\* saveFramesToDisk returns `files`; createGif reads this.ffmpegPath and
\* this.hasImageMagick and calls the backend of the branch taken
SelectBackend(j) ==
    /\ pc[j] = "save"
    /\ idx[j] = Len(processedFrames[j])
    /\ LET b == ChooseBackend(ffmpegPath, hasImageMagick)
       IN  /\ backend' = [backend EXCEPT ![j] = b]
           /\ invoked' = [invoked EXCEPT ![j] = Append(@, b)]
           /\ pc' = [pc EXCEPT ![j] = FirstStep(b, preset[j])]
    /\ UNCHANGED <<docVars, svcVars, fsVars, inVars, processedFrames, frameFiles, idx, execs,
                   endVars>>

saveFramesToDisk(j) == SaveFrame(j)

(***************************************************************************)
(* What the external tools read and write.                                 *)
(***************************************************************************)
Gif(b, frames) == [fmt |-> "gif", backend |-> b, frames |-> frames]

Palette == [fmt |-> "palette", backend |-> "ffmpeg", frames |-> << >>]

Exists(fs, path) == \E f \in fs : f.dir = path.dir /\ f.name = path.name

ReadFile(fs, path) == (CHOOSE f \in fs : f.dir = path.dir /\ f.name = path.name).data

\* the frames the pattern frame_%04d.png yields: frame 0, 1, ... while present
RECURSIVE PatternFrames(_, _, _)
PatternFrames(fs, dir, i) ==
    IF Exists(fs, FilePath(dir, FrameFileName(i)))
    THEN ReadFile(fs, FilePath(dir, FrameFileName(i))).frames
             \o PatternFrames(fs, dir, i + 1)
    ELSE << >>

\* the frames of the files named on a command line, in its order
RECURSIVE ListedFrames(_, _)
ListedFrames(fs, paths) ==
    IF paths = << >> THEN << >>
    ELSE ReadFile(fs, Head(paths)).frames \o ListedFrames(fs, Tail(paths))

\* a command line is well-formed only if the preset has the fields it prints
CommandOk(p) == p \in Tiers

\* ffmpeg rejects `-framerate 0`
FramerateOk(d) == Fps(d) >= 1

\* an external command as run: what it does and the preset values it prints
Exec(cmd, colors, dither) == [cmd |-> cmd, colors |-> colors, dither |-> dither]

\* paletteCmd (line 211): palettegen=max_colors=${preset.colors}
PalettegenCmd(p) == Exec("palettegen", ColorsArg(p), "n/a")

\* gifCmd of the two-pass branch (line 215): paletteuse=dither=none
PaletteuseCmd(p) == Exec("paletteuse", "n/a", "none")

\* gifCmd of the single-pass branch (lines 220-221)
SinglePassCmd(p) ==
    Exec("single", ColorsArg(p),
         IF PresetDither(p) = "none" THEN "none" ELSE "floyd_steinberg")

\* the convert command (lines 237-243)
ConvertCmd(p) == Exec("convert", ColorsArg(p), PresetDither(p))

(***************************************************************************)
(* createGifWithFFmpeg (lines 199-226).                                    *)
(***************************************************************************)
\* pass 1, `palettegen` (lines 211-212): writes palette.png or exits non-zero
FFmpegPalettegen(j) ==
    /\ pc[j] = "ffmpeg_palettegen"
    /\ \/ /\ CommandOk(preset[j])
          /\ FramerateOk(delay[j])
          /\ PatternFrames(files, SessionId(j), 0) # << >>
          /\ files' = WriteFile(files, SessionId(j), FileName("palette", 0), Palette)
          /\ execs' = [execs EXCEPT ![j] = Append(@, PalettegenCmd(preset[j]))]
          /\ pc' = [pc EXCEPT ![j] = "ffmpeg_paletteuse"]
          /\ UNCHANGED <<pending, cleanupCalls, cleanupAt, result>>
       \/ /\ execs' = [execs EXCEPT ![j] = Append(@, PalettegenCmd(preset[j]))]
          /\ EnterFinally(j, Throw("ffmpeg"))
          /\ UNCHANGED files
    /\ UNCHANGED <<docVars, svcVars, dirs, inVars, processedFrames, frameFiles, idx, backend,
                   invoked, listing, response, log>>

\* an encoding exec of ffmpeg: writes output.gif from the pattern's frames
FFmpegEncode(j, at, cmd, needsPalette) ==
    /\ pc[j] = at
    /\ execs' = [execs EXCEPT ![j] = Append(@, cmd)]
    /\ \/ /\ CommandOk(preset[j])
          /\ FramerateOk(delay[j])
          /\ PatternFrames(files, SessionId(j), 0) # << >>
          /\ needsPalette =>
                 Exists(files, FilePath(SessionId(j), FileName("palette", 0)))
          /\ files' = WriteFile(files, SessionId(j), FileName("output", 0),
                                Gif("ffmpeg", PatternFrames(files, SessionId(j), 0)))
          /\ pc' = [pc EXCEPT ![j] = "ffmpeg_read"]
          /\ UNCHANGED <<pending, cleanupCalls, cleanupAt, result>>
       \/ /\ EnterFinally(j, Throw("ffmpeg"))
          /\ UNCHANGED files
    /\ UNCHANGED <<docVars, svcVars, dirs, inVars, processedFrames, frameFiles, idx, backend,
                   invoked, listing, response, log>>

\* pass 2, `paletteuse` (lines 215-216)
FFmpegPaletteuse(j) == FFmpegEncode(j, "ffmpeg_paletteuse", PaletteuseCmd(preset[j]), TRUE)

\* the single pass of the other tiers (lines 220-222)
FFmpegSinglePass(j) == FFmpegEncode(j, "ffmpeg_single", SinglePassCmd(preset[j]), FALSE)

\* `return await fs.readFile(outputPath)`: the backend's result is createGif's
\* gifBuffer, which it returns (lines 113-114)
ReadOutput(j, at, e) ==
    /\ pc[j] = at
    /\ LET out == FilePath(SessionId(j), FileName("output", 0))
       IN  \/ /\ Exists(files, out)
              /\ EnterFinally(j, Return(ReadFile(files, out)))
           \/ EnterFinally(j, Throw(e))
    /\ UNCHANGED <<docVars, svcVars, fsVars, inVars, runVars, listing, response, log>>

\* line 225
FFmpegReadOutput(j) == ReadOutput(j, "ffmpeg_read", "read")

createGifWithFFmpeg(j) ==
    \/ FFmpegPalettegen(j)
    \/ FFmpegPaletteuse(j)
    \/ FFmpegSinglePass(j)
    \/ FFmpegReadOutput(j)

(***************************************************************************)
(* createGifWithImageMagick (lines 231-247).                               *)
(***************************************************************************)
\* `convert ... ${frameFiles.join(' ')} ... "${outputPath}"` (lines 237-245)
ConvertExec(j) ==
    /\ pc[j] = "convert_exec"
    /\ execs' = [execs EXCEPT ![j] = Append(@, ConvertCmd(preset[j]))]
    /\ \/ /\ CommandOk(preset[j])
          /\ frameFiles[j] # << >>
          /\ \A k \in 1..Len(frameFiles[j]) : Exists(files, frameFiles[j][k])
          /\ files' = WriteFile(files, SessionId(j), FileName("output", 0),
                                Gif("imagemagick", ListedFrames(files, frameFiles[j])))
          /\ pc' = [pc EXCEPT ![j] = "convert_read"]
          /\ UNCHANGED <<pending, cleanupCalls, cleanupAt, result>>
       \/ /\ EnterFinally(j, Throw("convert"))
          /\ UNCHANGED files
    /\ UNCHANGED <<docVars, svcVars, dirs, inVars, processedFrames, frameFiles, idx, backend,
                   invoked, listing, response, log>>

\* line 246
ConvertReadOutput(j) == ReadOutput(j, "convert_read", "read")

createGifWithImageMagick(j) == ConvertExec(j) \/ ConvertReadOutput(j)

(***************************************************************************)
(* createGifWithSharp (lines 252-263), called with frameFiles[0].          *)
(***************************************************************************)
\* sharp(firstFrame).gif(...).toBuffer(): encodes that one file.  With no
\* frame file, firstFrame is undefined and sharp waits for a stream that
\* nobody writes, or rejects: both outcomes are kept.
SharpEncode(j) ==
    /\ pc[j] = "sharp_encode"
    /\ \/ /\ frameFiles[j] # << >>
          /\ Exists(files, frameFiles[j][1])
          /\ EnterFinally(j, Return(Gif("sharp", ReadFile(files, frameFiles[j][1]).frames)))
       \/ EnterFinally(j, Throw("sharp"))
       \/ /\ frameFiles[j] = << >>
          /\ pc' = [pc EXCEPT ![j] = "hung"]
          /\ UNCHANGED <<pending, cleanupCalls, cleanupAt, result>>
    /\ UNCHANGED <<docVars, svcVars, fsVars, inVars, runVars, listing, response, log>>

createGifWithSharp(j) == SharpEncode(j)

(***************************************************************************)
(* cleanup (lines 268-278) and the end of createGif.                       *)
(***************************************************************************)
RECURSIVE SetToSeq(_)
SetToSeq(S) ==
    IF S = {} THEN << >>
    ELSE LET x == CHOOSE y \in S : TRUE
         IN  <<x>> \o SetToSeq(S \ {x})

\* fs.readdir(dir): the names of the directory's entries
Readdir(fs, dir) == SetToSeq({f.name : f \in {g \in fs : g.dir = dir}})

\* a variant of CleanupCaught in which the error leaves cleanup and finally
CleanupRaised(j, c) == Throw("cleanup")

\* what happens to an error raised inside cleanup's try: the catch of lines
\* 275-277 logs it and cleanup returns normally, so the completion of the
\* try block of createGif stands
CleanupCaught(j, c) == c

\* cleanup has returned: finally is over and createGif completes with the
\* completion of its try block
LeaveFinally(j, failed) ==
    /\ result' = [result EXCEPT
           ![j] = IF failed THEN CleanupCaught(j, pending[j]) ELSE pending[j]]
    /\ log' = [log EXCEPT
           ![j] = IF failed THEN Append(@, "Cleanup error") ELSE @]
    /\ pc' = [pc EXCEPT ![j] = "returned"]

\* await fs.readdir(tempDir) settles (line 270)
CleanupReaddir(j) ==
    /\ pc[j] = "cleanup_readdir"
    /\ \/ /\ SessionId(j) \in dirs
          /\ listing' = [listing EXCEPT ![j] = Readdir(files, SessionId(j))]
          /\ pc' = [pc EXCEPT ![j] = "cleanup_remove"]
          /\ UNCHANGED <<result, log>>
       \/ /\ LeaveFinally(j, TRUE)
          /\ UNCHANGED listing
    /\ UNCHANGED <<docVars, svcVars, fsVars, inVars, runVars, pending, cleanupCalls,
                   cleanupAt, response>>

\* await fs.unlink(path.join(tempDir, file)) settles (lines 271-273)
CleanupUnlink(j) ==
    /\ pc[j] = "cleanup_remove"
    /\ listing[j] # << >>
    /\ \/ /\ Exists(files, FilePath(SessionId(j), Head(listing[j])))
          /\ files' = {f \in files :
                          ~(f.dir = SessionId(j) /\ f.name = Head(listing[j]))}
          /\ listing' = [listing EXCEPT ![j] = Tail(@)]
          /\ UNCHANGED <<pc, result, log>>
       \/ /\ LeaveFinally(j, TRUE)
          /\ UNCHANGED <<files, listing>>
    /\ UNCHANGED <<docVars, svcVars, dirs, inVars, runVars, pending, cleanupCalls, cleanupAt,
                   response>>

\* a variant of Rmdir that leaves the directory in place
RmdirForgotten(ds, dir) == ds

\* the effect of a successful fs.rmdir(dir) on the set of directories
Rmdir(ds, dir) == ds \ {dir}

\* await fs.rmdir(tempDir) settles (line 274); rmdir removes an empty directory
CleanupRmdir(j) ==
    /\ pc[j] = "cleanup_remove"
    /\ listing[j] = << >>
    /\ \/ /\ SessionId(j) \in dirs
          /\ \A f \in files : f.dir # SessionId(j)
          /\ dirs' = Rmdir(dirs, SessionId(j))
          /\ LeaveFinally(j, FALSE)
       \/ /\ LeaveFinally(j, TRUE)
          /\ UNCHANGED dirs
    /\ UNCHANGED <<docVars, svcVars, files, inVars, runVars, pending, listing, cleanupCalls,
                   cleanupAt, response>>

cleanup(j) == CleanupReaddir(j) \/ CleanupUnlink(j) \/ CleanupRmdir(j)

createGif(j) ==
    \/ Mkdir(j)
    \/ preprocessFrames(j)
    \/ saveFramesToDisk(j)
    \/ SelectBackend(j)
    \/ createGifWithFFmpeg(j)
    \/ createGifWithImageMagick(j)
    \/ createGifWithSharp(j)
    \/ cleanup(j)

(***************************************************************************)
(* The /gif route (src/deploy-to-render.md, lines 100-127) behind          *)
(* validateConvertRequest (lines 256-297).                                 *)
(***************************************************************************)
validQualities == {"low", "medium", "high", "ultra"}

\* the answer of validateConvertRequest, "next" when it calls next()
validateConvertRequest(imgs, q) ==
    IF Len(imgs) = 0 THEN "No images provided"
    ELSE IF q # "absent" /\ q \notin validQualities THEN "Invalid quality"
    ELSE "next"

Answer(status, n, e) ==
    [status |-> status, success |-> (status = 200), frames |-> n, error |-> e]

\* the frame count the /gif handler reports: `frames: images.length` (line 121)
ReportedFrames(j) == Len(images[j])

\* POST /gif arrives: the middleware answers 400 or the handler calls
\* createGif with the body's quality, 'ultra' when the body has none
PostGif(j) ==
    /\ pc[j] = "idle"
    /\ \E imgs \in ImageSeqs, q \in Qualities :
          IF validateConvertRequest(imgs, q) = "next"
          THEN /\ EnterCreateGif(j, "gif", imgs, DefaultQuality(q))
               /\ UNCHANGED response
          ELSE /\ response' = [response EXCEPT
                       ![j] = Answer(400, 0, validateConvertRequest(imgs, q))]
               /\ route' = [route EXCEPT ![j] = "gif"]
               /\ images' = [images EXCEPT ![j] = imgs]
               /\ quality' = [quality EXCEPT ![j] = q]
               /\ pc' = [pc EXCEPT ![j] = "responded"]
               /\ UNCHANGED <<preset, delay>>
    /\ UNCHANGED <<docVars, svcVars, fsVars, runVars, pending, result, listing, cleanupCalls,
                   cleanupAt, log>>

\* createGif has settled: the handler goes on to storageService.upload (line
\* 114), or its catch hands the error to the error handler, which answers 500
GifSettled(j) ==
    /\ pc[j] = "returned"
    /\ route[j] = "gif"
    /\ IF result[j].kind = "return"
       THEN /\ pc' = [pc EXCEPT ![j] = "upload"]
            /\ UNCHANGED response
       ELSE /\ pc' = [pc EXCEPT ![j] = "responded"]
            /\ response' = [response EXCEPT ![j] = Answer(500, 0, result[j].err)]
    /\ UNCHANGED <<docVars, svcVars, fsVars, inVars, runVars, pending, result, listing,
                   cleanupCalls, cleanupAt, log>>

\* storageService.upload settles: res.json of lines 116-123, or the catch
GifUploaded(j) ==
    /\ pc[j] = "upload"
    /\ \/ response' = [response EXCEPT ![j] = Answer(200, ReportedFrames(j), "none")]
       \/ response' = [response EXCEPT ![j] = Answer(500, 0, "upload")]
    /\ pc' = [pc EXCEPT ![j] = "responded"]
    /\ UNCHANGED <<docVars, svcVars, fsVars, inVars, runVars, pending, result, listing,
                   cleanupCalls, cleanupAt, log>>

gifRoute(j) == PostGif(j) \/ GifSettled(j) \/ GifUploaded(j)

(***************************************************************************)
(* The document pipeline: pdfService.js.  Lengths on a PDF page are kept   *)
(* in hundredths of a point, so that pdf-lib's A-series sizes are whole    *)
(* numbers; quotients are exact fractions in lowest terms.                 *)
(***************************************************************************)
MaxPanelImages == 5

\* images handed to the document pipeline; "poster" is larger than any page
\* at the target resolution
DocImages == Images \cup {"poster"}

DocImageSeqs == SeqsUpTo(DocImages, MaxImages)

PanelImages == {"img1", "img2"}

ComicImageSeqs == SeqsUpTo(PanelImages, MaxPanelImages)

\* values of options.panelsPerPage
PanelCounts == (-1)..(MaxPanelImages + 1)

\* values of options.format: table entries, Custom, and one the table lacks
Formats == {"A4", "Ledger", "Square", "Custom", "B5"}

\* values of options.margin, in hundredths of a point
Margins == {0, 36 * 100, 300 * 100}

\* metadata.width and metadata.height of the images, in pixels
Pixels ==
    [img1   |-> [w |-> 800,  h |-> 1200],
     img2   |-> [w |-> 1200, h |-> 800],
     poster |-> [w |-> 6000, h |-> 4000],
     bad    |-> [w |-> 0,    h |-> 0]]

\* an image buffer: the inputs it was made of, its pixel size and, for a
\* composited page, the cells of its panels
Item(img) == [srcs |-> <<img>>, w |-> Pixels[img].w, h |-> Pixels[img].h, cells |-> << >>]

Items(imgs) == [i \in 1..Len(imgs) |-> Item(imgs[i])]

DecodableItem(it) == \A i \in 1..Len(it.srcs) : Decodable(it.srcs[i])

\* ---- exact fractions ----
Abs(n) == IF n < 0 THEN -n ELSE n

RECURSIVE Gcd(_, _)
Gcd(a, b) == IF b = 0 THEN a ELSE Gcd(b, a % b)

Lcm(a, b) == (a \div Gcd(a, b)) * b

\* n / d for d > 0, in lowest terms
Rat(n, d) == LET g == Gcd(Abs(n), d) IN [n |-> n \div g, d |-> d \div g]

Whole(k) == [n |-> k, d |-> 1]

Plus(p, q) ==
    LET l == Lcm(p.d, q.d) IN Rat(p.n * (l \div p.d) + q.n * (l \div q.d), l)

Minus(p, q) ==
    LET l == Lcm(p.d, q.d) IN Rat(p.n * (l \div p.d) - q.n * (l \div q.d), l)

Times(k, r) == Rat(k * r.n, r.d)

Over(r, k) == Rat(r.n, r.d * k)

Leq(p, q) ==
    LET l == Lcm(p.d, q.d) IN p.n * (l \div p.d) <= q.n * (l \div q.d)

\* Math.min
MathMin(p, q) == IF Leq(p, q) THEN p ELSE q

\* Math.round of a fraction that is not negative
RoundRat(r) == Round(r.n, r.d)

\* ---- page sizes ----
\* this.pageSizes of the constructor; the A-series and the US sizes are
\* pdf-lib's PageSizes, 'Custom' is null
pageSizes ==
    [A3        |-> [w |-> 84189,       h |-> 119055],
     A4        |-> [w |-> 59528,       h |-> 84189],
     A5        |-> [w |-> 41953,       h |-> 59528],
     Letter    |-> [w |-> 612 * 100,   h |-> 792 * 100],
     Legal     |-> [w |-> 612 * 100,   h |-> 1008 * 100],
     Tabloid   |-> [w |-> 792 * 100,   h |-> 1224 * 100],
     Ledger    |-> [w |-> 1224 * 100,  h |-> 792 * 100],
     Executive |-> [w |-> 725 * 72,    h |-> 1050 * 72],
     Comic     |-> [w |-> (6625 * 72) \div 10, h |-> 1025 * 72],
     Manga     |-> [w |-> 5 * 72 * 100, h |-> 7 * 72 * 100],
     Square    |-> [w |-> 8 * 72 * 100, h |-> 8 * 72 * 100],
     Custom    |-> NoPageSize]

\* this.pageSizes[format] || PageSizes.A4
PageSizeFor(format) ==
    IF format \in DOMAIN pageSizes /\ pageSizes[format] # NoPageSize
    THEN pageSizes[format]
    ELSE pageSizes["A4"]

\* the Custom branch of getPageSize: 11 inches high, as wide as the first
\* image's aspect ratio makes it (a whole number for every image of Pixels)
CustomPageSize(it) ==
    [w |-> (11 * 72 * 100 * it.w) \div it.h, h |-> 11 * 72 * 100]

\* ---- optimizeImageForPdf ----
\* createPdf's default quality
DefaultPdfQuality == 95

TargetDPI(q) == IF q >= 90 THEN 300 ELSE IF q >= 70 THEN 200 ELSE 150

\* sharp's resize with fit 'inside': the largest size of the same aspect
\* ratio inside maxWidth x maxHeight, each side rounded to a pixel
ResizeInside(it, maxWidth, maxHeight) ==
    IF maxWidth * it.h <= maxHeight * it.w
    THEN [it EXCEPT !.w = maxWidth, !.h = Round(it.h * maxWidth, it.w)]
    ELSE [it EXCEPT !.w = Round(it.w * maxHeight, it.h), !.h = maxHeight]

optimizeImageForPdf(it, size, q) ==
    LET maxWidth  == Round(size.w * TargetDPI(q), 72 * 100)
        maxHeight == Round(size.h * TargetDPI(q), 72 * 100)
    IN  IF it.w > maxWidth \/ it.h > maxHeight
        THEN ResizeInside(it, maxWidth, maxHeight)
        ELSE it

\* ---- the layout of addImagePage (lines 115-141) ----
\* a mutant of Layout: the image is stretched over the whole available area
LayoutStretched(w, h, pageWidth, pageHeight, margin) ==
    [x      |-> Whole(margin),
     y      |-> Whole(margin),
     width  |-> Whole(pageWidth - 2 * margin),
     height |-> Whole(pageHeight - 2 * margin)]

Layout(w, h, pageWidth, pageHeight, margin) ==
    LET availableWidth  == pageWidth - 2 * margin
        availableHeight == pageHeight - 2 * margin
        widthRatio   == Rat(availableWidth, w)
        heightRatio  == Rat(availableHeight, h)
        scaleFactor  == MathMin(widthRatio, heightRatio)
        scaledWidth  == Times(w, scaleFactor)
        scaledHeight == Times(h, scaleFactor)
    IN  [x      |-> Over(Minus(Whole(pageWidth), scaledWidth), 2),
         y      |-> Over(Minus(Whole(pageHeight), scaledHeight), 2),
         width  |-> scaledWidth,
         height |-> scaledHeight]

\* the page addImagePage adds for an image: what was embedded, the page's
\* size and margin, and the rectangle handed to page.drawImage
PageOf(it, size, margin, optimize) ==
    LET embedded == IF optimize
                    THEN optimizeImageForPdf(it, size, DefaultPdfQuality)
                    ELSE it
    IN  [srcs |-> it.srcs, w |-> embedded.w, h |-> embedded.h,
         pageWidth |-> size.w, pageHeight |-> size.h, margin |-> margin,
         draw |-> Layout(embedded.w, embedded.h, size.w, size.h, margin)]

\* ---- createPdf ----
PdfReturn(pages) == [kind |-> "return", pages |-> pages, err |-> "none"]

\* the catch of createPdf: `Failed to create PDF: ${error.message}`
PdfThrow == [kind |-> "throw", pages |-> << >>, err |-> "Failed to create PDF"]

\* createPdf(items, opt) up to its first await
EnterCreatePdf(j, items, opt) ==
    /\ pdfImages' = [pdfImages EXCEPT ![j] = items]
    /\ pdfOpt' = [pdfOpt EXCEPT ![j] = opt]
    /\ pdfIdx' = [pdfIdx EXCEPT ![j] = 0]
    /\ pdfPages' = [pdfPages EXCEPT ![j] = << >>]
    /\ pdfPc' = [pdfPc EXCEPT ![j] = "pdf_pagesize"]

\* a caller invokes pdfService.createPdf directly
CallCreatePdf(j) ==
    /\ pc[j] = "idle"
    /\ pdfPc[j] = "idle"
    /\ \E imgs \in DocImageSeqs, f \in Formats, m \in Margins, o \in BOOLEAN :
          /\ EnterCreatePdf(j, Items(imgs), [format |-> f, margin |-> m, optimize |-> o])
          /\ images' = [images EXCEPT ![j] = imgs]
    /\ route' = [route EXCEPT ![j] = "pdf"]
    /\ UNCHANGED <<pageSize, pdfResult, panelsPerPage, comicI, comicTurns, groupedImages, svcVars, fsVars, pc, quality, delay, preset, runVars, endVars>>

\* the catch of createPdf is entered
PdfFail(j) ==
    /\ pdfResult' = [pdfResult EXCEPT ![j] = PdfThrow]
    /\ pdfPc' = [pdfPc EXCEPT ![j] = "pdf_returned"]

\* `await this.getPageSize(format, images[0])` (line 52) settles
PdfGetPageSize(j) ==
    /\ pdfPc[j] = "pdf_pagesize"
    /\ IF pdfOpt[j].format = "Custom" /\ pdfImages[j] # << >>
       THEN IF DecodableItem(pdfImages[j][1])
            THEN /\ pageSize' = [pageSize EXCEPT ![j] = CustomPageSize(pdfImages[j][1])]
                 /\ pdfPc' = [pdfPc EXCEPT ![j] = "pdf_page"]
                 /\ UNCHANGED pdfResult
            ELSE /\ PdfFail(j)
                 /\ UNCHANGED pageSize
       ELSE /\ pageSize' = [pageSize EXCEPT ![j] = PageSizeFor(pdfOpt[j].format)]
            /\ pdfPc' = [pdfPc EXCEPT ![j] = "pdf_page"]
            /\ UNCHANGED pdfResult
    /\ UNCHANGED <<pdfImages, pdfOpt, pdfIdx, pdfPages, panelsPerPage, comicI, comicTurns,
                   groupedImages, svcVars, fsVars, pc, inVars, runVars, endVars>>

\* one iteration of the loop of lines 55-58: addImagePage throws, on an
\* image sharp cannot read or pdf-lib cannot embed, or it adds the page
PdfAddPage(j) ==
    /\ pdfPc[j] = "pdf_page"
    /\ pdfIdx[j] < Len(pdfImages[j])
    /\ LET it == pdfImages[j][pdfIdx[j] + 1]
       IN  \/ /\ PdfFail(j)
              /\ UNCHANGED <<pdfPages, pdfIdx>>
           \/ /\ DecodableItem(it)
              /\ pdfPages' = [pdfPages EXCEPT ![j] =
                     Append(@, PageOf(it, pageSize[j], pdfOpt[j].margin, pdfOpt[j].optimize))]
              /\ pdfIdx' = [pdfIdx EXCEPT ![j] = @ + 1]
              /\ UNCHANGED <<pdfPc, pdfResult>>
    /\ UNCHANGED <<pdfImages, pdfOpt, pageSize, panelsPerPage, comicI, comicTurns, groupedImages,
                   svcVars, fsVars, pc, inVars, runVars, endVars>>

\* after the loop: pdfDoc.save (lines 61-65) and the return, or the catch
PdfSave(j) ==
    /\ pdfPc[j] = "pdf_page"
    /\ pdfIdx[j] = Len(pdfImages[j])
    /\ \/ /\ pdfResult' = [pdfResult EXCEPT ![j] = PdfReturn(pdfPages[j])]
          /\ pdfPc' = [pdfPc EXCEPT ![j] = "pdf_returned"]
       \/ PdfFail(j)
    /\ UNCHANGED <<pdfImages, pdfOpt, pageSize, pdfIdx, pdfPages, panelsPerPage, comicI, comicTurns,
                   groupedImages, svcVars, fsVars, pc, inVars, runVars, endVars>>

createPdf(j) == PdfGetPageSize(j) \/ PdfAddPage(j) \/ PdfSave(j)

\* ---- combineImagesAsComicPage ----
\* pageWidth = 6.625 * 300 and pageHeight = 10.25 * 300 pixels
CanvasWidth == Rat(6625 * 300, 1000)

CanvasHeight == Rat(1025 * 300, 100)

CanvasMargin == 50

Gutter == 20

\* the cell of panel i (from 0) among k: its row and column, the rounded
\* position handed to sharp and the rounded size the panel is resized to
CellGeometry(i, k) ==
    LET panelWidth  == Over(Minus(CanvasWidth, Whole(2 * CanvasMargin + Gutter)),
                            IF k < 2 THEN k ELSE 2)
        panelHeight == Over(Minus(CanvasHeight, Whole(2 * CanvasMargin)), (k + 1) \div 2)
        row == i \div 2
        col == i % 2
        x == Plus(Whole(CanvasMargin), Times(col, Plus(panelWidth, Whole(Gutter))))
        y == Plus(Whole(CanvasMargin), Times(row, panelHeight))
    IN  [row |-> row, col |-> col,
         left |-> RoundRat(x), top |-> RoundRat(y),
         width |-> RoundRat(panelWidth), height |-> RoundRat(panelHeight)]

\* the cells depend on i and k only: the grid of every k the loop can pass
PanelGrids ==
    [k \in 2..(MaxPanelImages + 1) |-> [i \in 1..k |-> CellGeometry(i - 1, k)]]

\* the composite of panel i (from 0) among k
Cell(img, i, k) ==
    LET g == PanelGrids[k][i + 1]
    IN  [src |-> img, row |-> g.row, col |-> g.col, left |-> g.left, top |-> g.top,
         width |-> g.width, height |-> g.height]

combineImagesAsComicPage(imgs) ==
    [srcs  |-> imgs,
     w     |-> RoundRat(CanvasWidth),
     h     |-> RoundRat(CanvasHeight),
     cells |-> [i \in 1..Len(imgs) |-> Cell(imgs[i], i - 1, Len(imgs))]]

\* ---- createComicPdf ----
\* an index of Array.prototype.slice, relative to the end when negative
SliceIndex(k, n) ==
    IF k < 0 THEN (IF n + k < 0 THEN 0 ELSE n + k)
    ELSE IF k > n THEN n ELSE k

\* Array.prototype.slice(start, end)
Slice(s, start, end) ==
    LET a == SliceIndex(start, Len(s))
        b == SliceIndex(end, Len(s))
    IN  IF a < b THEN SubSeq(s, a + 1, b) ELSE << >>

\* a mutant of PageImages: every group is cut one image short
PageImagesShort(imgs, i, p) == Slice(imgs, i, i + p - 1)

\* images.slice(i, i + panelsPerPage) (line 283)
PageImages(imgs, i, p) == Slice(imgs, i, i + p)

\* margin: includeMargins ? 36 : 0 (line 277)
ComicMargin(includeMargins) == IF includeMargins THEN 36 * 100 ELSE 0

\* a caller invokes pdfService.createComicPdf: the code before the loop
CallCreateComicPdf(j) ==
    /\ pc[j] = "idle"
    /\ pdfPc[j] = "idle"
    /\ \E imgs \in ComicImageSeqs, p \in PanelCounts, includeMargins \in BOOLEAN :
          /\ images' = [images EXCEPT ![j] = imgs]
          /\ panelsPerPage' = [panelsPerPage EXCEPT ![j] = p]
          /\ pdfOpt' = [pdfOpt EXCEPT ![j] =
                 [format |-> "Comic", margin |-> ComicMargin(includeMargins),
                  optimize |-> DefaultPdfOptions.optimize]]
    /\ route' = [route EXCEPT ![j] = "comic"]
    /\ comicI' = [comicI EXCEPT ![j] = 0]
    /\ comicTurns' = [comicTurns EXCEPT ![j] = 0]
    /\ groupedImages' = [groupedImages EXCEPT ![j] = << >>]
    /\ pdfPc' = [pdfPc EXCEPT ![j] = "comic_loop"]
    /\ UNCHANGED <<pdfImages, pageSize, pdfIdx, pdfPages, pdfResult, svcVars, fsVars, pc, quality, delay, preset, runVars, endVars>>

\* i += panelsPerPage.  Below -images.length every index behaves alike (the
\* slice is empty and the loop condition holds), so the model keeps a lower
\* index at -images.length
NextIndex(i, p, n) == IF i + p < -n THEN -n ELSE i + p

\* one iteration of the loop of lines 282-292
ComicIteration(j) ==
    /\ pdfPc[j] = "comic_loop"
    /\ comicI[j] < Len(images[j])
    /\ LET pageImages == PageImages(images[j], comicI[j], panelsPerPage[j])
       IN  groupedImages' = [groupedImages EXCEPT ![j] =
               IF Len(pageImages) > 1 /\ panelsPerPage[j] > 1
               THEN Append(@, combineImagesAsComicPage(pageImages))
               ELSE @ \o Items(pageImages)]
    /\ comicI' = [comicI EXCEPT ![j] = NextIndex(@, panelsPerPage[j], Len(images[j]))]
    /\ comicTurns' = [comicTurns EXCEPT ![j] = (@ + 1) % 2]
    /\ UNCHANGED <<pdfPc, pdfImages, pdfOpt, pageSize, pdfIdx, pdfPages, pdfResult,
                   panelsPerPage, svcVars, fsVars, pc, inVars, runVars, endVars>>

\* the loop condition fails: return this.createPdf(groupedImages, comicOptions)
ComicLoopExit(j) ==
    /\ pdfPc[j] = "comic_loop"
    /\ comicI[j] >= Len(images[j])
    /\ EnterCreatePdf(j, groupedImages[j], pdfOpt[j])
    /\ UNCHANGED <<pageSize, pdfResult, panelsPerPage, comicI, comicTurns, groupedImages, svcVars, fsVars, pc, inVars, runVars, endVars>>

createComicPdf(j) == ComicIteration(j) \/ ComicLoopExit(j)

(***************************************************************************)
(* The handlers that can produce both artifacts (src/deploy-to-render.md): *)
(* /both (lines 158-196) and /from-urls (lines 199-229).                   *)
(***************************************************************************)
Kinds == {"gif", "pdf"}

\* values of req.body.quality: none, a tier, and one the middleware rejects
BothQualities == {"absent", "low", "best"}

\* values of req.body.format || 'A4'
BothFormats == {"A4", "Custom"}

\* values of outputFormat of /from-urls
OutputFormats == {"urls_gif", "urls_pdf", "urls_both"}

gifEndVars == <<pending, result, listing, cleanupCalls, cleanupAt, log>>

\* an artifact storageService.upload has stored
Artifact(j, k) == [job |-> j, kind |-> k]

\* a mutant of PromiseAll: fulfilled as soon as one pipeline has returned
PromiseAny(jn, g, p) ==
    IF jn.kind # "none" THEN jn
    ELSE IF g.kind = "return" THEN Return(g.buffer)
    ELSE IF p.kind = "return" THEN Return(NoBuffer)
    ELSE IF g.kind = "throw" /\ p.kind = "throw" THEN Throw(g.err)
    ELSE jn

\* Promise.all([createGif(...), createPdf(...)]) (line 162) once a pipeline
\* has made a step: it stays as it is once settled, rejects with the error
\* of the pipeline that failed, and is fulfilled when both have returned
PromiseAll(jn, g, p) ==
    IF jn.kind # "none" THEN jn
    ELSE IF g.kind = "throw" THEN Throw(g.err)
    ELSE IF p.kind = "throw" THEN Throw(p.err)
    ELSE IF g.kind = "return" /\ p.kind = "return" THEN Return(g.buffer)
    ELSE jn

\* the options /both and /from-urls leave at createPdf's defaults
RoutePdfOptions(f) ==
    [format |-> f, margin |-> DefaultPdfOptions.margin, optimize |-> DefaultPdfOptions.optimize]

\* POST /both arrives with a body that names no delay: the middleware
\* answers 400, or the handler calls createGif and createPdf, each of which
\* runs to its first await, and awaits the Promise.all of the two
PostBoth(j) ==
    /\ hpc[j] = "idle"
    /\ pc[j] = "idle"
    /\ pdfPc[j] = "idle"
    /\ \E imgs \in ImageSeqs, q \in BothQualities, f \in BothFormats :
          IF validateConvertRequest(imgs, q) = "next"
          THEN /\ EnterCreateGif(j, "both", imgs, DefaultQuality(q))
               /\ delay'[j] = DefaultDelay
               /\ EnterCreatePdf(j, Items(imgs), RoutePdfOptions(f))
               /\ hpc' = [hpc EXCEPT ![j] = "await_both"]
               /\ UNCHANGED response
          ELSE /\ response' = [response EXCEPT
                       ![j] = Answer(400, 0, validateConvertRequest(imgs, q))]
               /\ route' = [route EXCEPT ![j] = "both"]
               /\ images' = [images EXCEPT ![j] = imgs]
               /\ quality' = [quality EXCEPT ![j] = q]
               /\ hpc' = [hpc EXCEPT ![j] = "responded"]
               /\ UNCHANGED <<preset, delay, pc, pdfImages, pdfOpt, pdfIdx, pdfPages, pdfPc>>
    /\ UNCHANGED <<svcVars, fsVars, runVars, gifEndVars, pageSize, pdfResult,
                   panelsPerPage, comicI, comicTurns, groupedImages, joined, published, uploads>>

\* a step of the animation pipeline of /both; the Promise.all sees it settle
BothGifStep(j) ==
    /\ route[j] = "both"
    /\ createGif(j)
    /\ joined' = [joined EXCEPT ![j] = PromiseAll(@, result'[j], pdfResult[j])]
    /\ UNCHANGED <<published, hpc, uploads>>

\* a step of the document pipeline of /both; the Promise.all sees it settle
BothPdfStep(j) ==
    /\ route[j] = "both"
    /\ createPdf(j)
    /\ joined' = [joined EXCEPT ![j] = PromiseAll(@, result[j], pdfResult'[j])]
    /\ UNCHANGED <<published, hpc, uploads>>

\* the handler resumes after `await Promise.all` (line 162): it calls
\* storageService.upload for both buffers (lines 176-179), or its catch
\* hands the rejection to the error handler
BothJoined(j) ==
    /\ hpc[j] = "await_both"
    /\ joined[j].kind # "none"
    /\ IF joined[j].kind = "return"
       THEN /\ uploads' = [uploads EXCEPT ![j] = [gif |-> "pending", pdf |-> "pending"]]
            /\ hpc' = [hpc EXCEPT ![j] = "upload_both"]
            /\ UNCHANGED response
       ELSE /\ response' = [response EXCEPT ![j] = Answer(500, 0, joined[j].err)]
            /\ hpc' = [hpc EXCEPT ![j] = "responded"]
            /\ UNCHANGED uploads
    /\ UNCHANGED <<svcVars, fsVars, pc, inVars, runVars, gifEndVars, docVars, joined,
                   published>>

\* storageService.upload settles for artifact k: the artifact is stored, or
\* the upload failed and nothing of it is
UploadSettles(j, k, ok) ==
    /\ uploads[j][k] = "pending"
    /\ uploads' = [uploads EXCEPT ![j][k] = IF ok THEN "done" ELSE "failed"]
    /\ published' = IF ok THEN published \cup {Artifact(j, k)} ELSE published

\* one of the two uploads of /both settles; the Promise.all of lines 176-179
\* rejects at the first failure (the handler answers 500 while the other
\* upload goes on) and is fulfilled when both are done (res.json)
BothUploadSettles(j) ==
    /\ hpc[j] \in {"upload_both", "responded"}
    /\ route[j] = "both"
    /\ \E k \in Kinds, ok \in BOOLEAN :
          /\ UploadSettles(j, k, ok)
          /\ IF hpc[j] = "responded"
             THEN UNCHANGED <<hpc, response>>
             ELSE IF ~ok
             THEN /\ hpc' = [hpc EXCEPT ![j] = "responded"]
                  /\ response' = [response EXCEPT ![j] = Answer(500, 0, "upload")]
             ELSE IF \A o \in Kinds : uploads'[j][o] = "done"
             THEN /\ hpc' = [hpc EXCEPT ![j] = "responded"]
                  /\ response' = [response EXCEPT ![j] = Answer(200, ReportedFrames(j), "none")]
             ELSE UNCHANGED <<hpc, response>>
    /\ UNCHANGED <<svcVars, fsVars, pc, inVars, runVars, gifEndVars, docVars, joined>>

bothRoute(j) ==
    \/ PostBoth(j)
    \/ BothGifStep(j)
    \/ BothPdfStep(j)
    \/ BothJoined(j)
    \/ BothUploadSettles(j)

\* ---- /from-urls ----
\* outputFormat asks for artifact k
Requested(r, k) ==
    \/ r = "both"
    \/ r = "urls_both"
    \/ r = "urls_gif" /\ k = "gif"
    \/ r = "urls_pdf" /\ k = "pdf"

\* the handler answers an error through its catch
FailRequest(j, e) ==
    /\ response' = [response EXCEPT ![j] = Answer(500, 0, e)]
    /\ hpc' = [hpc EXCEPT ![j] = "responded"]

\* POST /from-urls arrives: 400 without an imageUrls array (line 203), else
\* the handler awaits the downloads (lines 207-209)
PostFromUrls(j) ==
    /\ hpc[j] = "idle"
    /\ pc[j] = "idle"
    /\ pdfPc[j] = "idle"
    /\ \E r \in OutputFormats :
          /\ route' = [route EXCEPT ![j] = r]
          /\ \/ /\ \E imgs \in ImageSeqs : images' = [images EXCEPT ![j] = imgs]
                /\ hpc' = [hpc EXCEPT ![j] = "download"]
                /\ UNCHANGED response
             \/ /\ response' = [response EXCEPT
                        ![j] = Answer(400, 0, "imageUrls array is required")]
                /\ hpc' = [hpc EXCEPT ![j] = "responded"]
                /\ UNCHANGED images
    /\ UNCHANGED <<svcVars, fsVars, pc, quality, delay, preset, runVars, gifEndVars,
                   docVars, joined, published, uploads>>

\* the handler calls createPdf(images, options) (line 220)
StartUrlsPdf(j) ==
    /\ \E f \in BothFormats : EnterCreatePdf(j, Items(images[j]), RoutePdfOptions(f))
    /\ hpc' = [hpc EXCEPT ![j] = "await_pdf"]

\* the downloads settle: the catch, or the first pipeline asked for starts
UrlsDownloaded(j) ==
    /\ hpc[j] = "download"
    /\ \/ /\ FailRequest(j, "download")
          /\ UNCHANGED <<pc, inVars, pdfPc, pdfImages, pdfOpt, pdfIdx, pdfPages>>
       \/ /\ Requested(route[j], "gif")
          /\ \E q \in BothQualities \cap Qualities :
                EnterCreateGif(j, route[j], images[j], DefaultQuality(q))
          /\ delay'[j] = DefaultDelay
          /\ hpc' = [hpc EXCEPT ![j] = "await_gif"]
          /\ UNCHANGED <<response, pdfPc, pdfImages, pdfOpt, pdfIdx, pdfPages>>
       \/ /\ ~Requested(route[j], "gif")
          /\ StartUrlsPdf(j)
          /\ UNCHANGED <<response, pc, inVars>>
    /\ UNCHANGED <<svcVars, fsVars, runVars, gifEndVars, pageSize, pdfResult,
                   panelsPerPage, comicI, comicTurns, groupedImages, joined, published, uploads>>

\* a step of the pipeline the handler of /from-urls awaits
UrlsGifStep(j) ==
    /\ route[j] \in OutputFormats
    /\ createGif(j)
    /\ UNCHANGED pubVars

UrlsPdfStep(j) ==
    /\ route[j] \in OutputFormats
    /\ createPdf(j)
    /\ UNCHANGED pubVars

\* `await gifService.createGif` (line 214) settles: upload (line 215) or catch
UrlsGifSettled(j) ==
    /\ hpc[j] = "await_gif"
    /\ result[j].kind # "none"
    /\ IF result[j].kind = "return"
       THEN /\ uploads' = [uploads EXCEPT ![j].gif = "pending"]
            /\ hpc' = [hpc EXCEPT ![j] = "upload_gif"]
            /\ UNCHANGED response
       ELSE /\ FailRequest(j, result[j].err)
            /\ UNCHANGED uploads
    /\ UNCHANGED <<svcVars, fsVars, pc, inVars, runVars, gifEndVars, docVars, joined,
                   published>>

\* the upload of the GIF settles (line 215): the handler goes on to the
\* document when it was asked for, answers otherwise, or its catch runs
UrlsGifUploaded(j) ==
    /\ hpc[j] = "upload_gif"
    /\ \E ok \in BOOLEAN :
          /\ UploadSettles(j, "gif", ok)
          /\ IF ~ok
             THEN /\ FailRequest(j, "upload")
                  /\ UNCHANGED <<pdfPc, pdfImages, pdfOpt, pdfIdx, pdfPages>>
             ELSE IF Requested(route[j], "pdf")
             THEN /\ StartUrlsPdf(j)
                  /\ UNCHANGED response
             ELSE /\ response' = [response EXCEPT ![j] = Answer(200, 0, "none")]
                  /\ hpc' = [hpc EXCEPT ![j] = "responded"]
                  /\ UNCHANGED <<pdfPc, pdfImages, pdfOpt, pdfIdx, pdfPages>>
    /\ UNCHANGED <<svcVars, fsVars, pc, inVars, runVars, gifEndVars, pageSize, pdfResult,
                   panelsPerPage, comicI, comicTurns, groupedImages, joined>>

\* `await pdfService.createPdf` (line 220) settles: upload (line 221) or catch
UrlsPdfSettled(j) ==
    /\ hpc[j] = "await_pdf"
    /\ pdfResult[j].kind # "none"
    /\ IF pdfResult[j].kind = "return"
       THEN /\ uploads' = [uploads EXCEPT ![j].pdf = "pending"]
            /\ hpc' = [hpc EXCEPT ![j] = "upload_pdf"]
            /\ UNCHANGED response
       ELSE /\ FailRequest(j, pdfResult[j].err)
            /\ UNCHANGED uploads
    /\ UNCHANGED <<svcVars, fsVars, pc, inVars, runVars, gifEndVars, docVars, joined,
                   published>>

\* the upload of the PDF settles (line 221): res.json(result), or the catch
UrlsPdfUploaded(j) ==
    /\ hpc[j] = "upload_pdf"
    /\ \E ok \in BOOLEAN :
          /\ UploadSettles(j, "pdf", ok)
          /\ IF ok
             THEN /\ response' = [response EXCEPT ![j] = Answer(200, 0, "none")]
                  /\ hpc' = [hpc EXCEPT ![j] = "responded"]
             ELSE FailRequest(j, "upload")
    /\ UNCHANGED <<svcVars, fsVars, pc, inVars, runVars, gifEndVars, docVars, joined>>

fromUrlsRoute(j) ==
    \/ PostFromUrls(j)
    \/ UrlsDownloaded(j)
    \/ UrlsGifStep(j)
    \/ UrlsGifSettled(j)
    \/ UrlsGifUploaded(j)
    \/ UrlsPdfStep(j)
    \/ UrlsPdfSettled(j)
    \/ UrlsPdfUploaded(j)

(***************************************************************************)
(* The specification: the availability probe beside one conversion.        *)
(***************************************************************************)
Next ==
    /\ \/ checkDependencies
       \/ \E j \in SoloJobs : CallCreateGif(j) \/ createGif(j) \/ gifRoute(j)
    /\ UNCHANGED pubVars

Spec == Init /\ [][Next]_vars

(***************************************************************************)
(* The specification of the document pipeline: one call of createPdf or of *)
(* createComicPdf.  The fair one lets no continuation that can run wait    *)
(* forever, as the event loop runs every continuation that is ready.       *)
(***************************************************************************)
InitPdf == Init /\ host.ffmpeg /\ host.convert

NextPdf ==
    /\ \E j \in SoloJobs :
           \/ CallCreatePdf(j)
           \/ CallCreateComicPdf(j)
           \/ createComicPdf(j)
           \/ createPdf(j)
    /\ UNCHANGED pubVars

SpecPdf == InitPdf /\ [][NextPdf]_vars

SpecPdfFair ==
    /\ SpecPdf
    /\ \A j \in SoloJobs :
           /\ WF_vars(ComicIteration(j) /\ UNCHANGED pubVars)
           /\ WF_vars(ComicLoopExit(j) /\ UNCHANGED pubVars)

(***************************************************************************)
(* The specification of the handlers that can produce both artifacts: the  *)
(* availability probe beside one request to /both or to /from-urls.        *)
(***************************************************************************)
NextBoth ==
    \/ checkDependencies /\ UNCHANGED pubVars
    \/ \E j \in SoloJobs : bothRoute(j) \/ fromUrlsRoute(j)

SpecBoth == Init /\ [][NextBoth]_vars

(***************************************************************************)
(* The specification of concurrent jobs: the availability probe, a request *)
(* to /both and, beside it, another caller's createGif.                    *)
(***************************************************************************)
OtherJobs == Jobs \ SoloJobs

\* the images of the request to /both and those of the other caller, which
\* have no image in common
ConcBothImages == <<"img1">>

ConcDirectImages == <<"img2", "img2">>

\* POST /both with these images and no quality, format or delay
ConcPostBoth(j) ==
    /\ PostBoth(j)
    /\ images'[j] = ConcBothImages
    /\ quality'[j] = DefaultQuality("absent")
    /\ pdfOpt'[j] = DefaultPdfOptions

\* createGif(images) with these images and no options
ConcCallCreateGif(j) ==
    /\ CallCreateGif(j)
    /\ images'[j] = ConcDirectImages
    /\ quality'[j] = DefaultQuality("absent")
    /\ delay'[j] = DefaultDelay
    /\ UNCHANGED pubVars

\* a step of a createGif that a caller of the service started
DirectGifStep(j) ==
    /\ route[j] = "direct"
    /\ createGif(j)
    /\ UNCHANGED pubVars

NextConc ==
    \/ checkDependencies /\ UNCHANGED pubVars
    \/ \E j \in SoloJobs :
          \/ ConcPostBoth(j)
          \/ BothGifStep(j)
          \/ BothPdfStep(j)
          \/ BothJoined(j)
          \/ BothUploadSettles(j)
    \/ \E j \in OtherJobs : ConcCallCreateGif(j) \/ DirectGifStep(j)

SpecConc == Init /\ [][NextConc]_vars

(***************************************************************************)
(* Vocabulary of the properties.                                           *)
(***************************************************************************)
\* createGif was called for the job
Entered(j) == preset[j] # "undefined"

\* createGif has completed: its caller holds a buffer or an error
Settled(j) == result[j].kind # "none"

\* fs.mkdir succeeded, so the job has had a workspace directory
WorkspaceCreated(j) ==
    /\ Entered(j)
    /\ pc[j] \notin {"idle", "mkdir"}
    /\ result[j].err # "mkdir"

BackendSteps ==
    {"ffmpeg_palettegen", "ffmpeg_paletteuse", "ffmpeg_single", "ffmpeg_read",
     "convert_exec", "convert_read", "sharp_encode", "hung"}

BackendErrors == {"ffmpeg", "convert", "sharp", "read"}

WorkspaceFiles(j) == {f \in files : f.dir = SessionId(j)}

(***************************************************************************)
(* C1 as stated: once createGif has completed for a job whose workspace    *)
(* directory was created, that directory does not exist, whether the job   *)
(* returned an artifact or failed.                                         *)
(***************************************************************************)
C1_LeakFreedom ==
    \A j \in Jobs : (Settled(j) /\ WorkspaceCreated(j)) => SessionId(j) \notin dirs

(***************************************************************************)
(* C1 amended: once createGif has completed for a job whose workspace      *)
(* directory was created, the directory and every file in it are gone,     *)
(* unless a removal step of cleanup itself failed, and then a cleanup      *)
(* error was logged.                                                        *)
(***************************************************************************)
C1_LeakFreedomUnlessRemovalFailed ==
    \A j \in Jobs :
        (Settled(j) /\ WorkspaceCreated(j)) =>
            \/ SessionId(j) \notin dirs /\ WorkspaceFiles(j) = {}
            \/ log[j] # << >>

\* a job failed in a backend after staging its frames, and its workspace is gone
C1_Witness ==
    \E j \in Jobs :
        /\ Settled(j)
        /\ WorkspaceCreated(j)
        /\ result[j].err \in BackendErrors
        /\ frameFiles[j] # << >>
        /\ log[j] = << >>
        /\ SessionId(j) \notin dirs

(***************************************************************************)
(* C2 as stated: a job fails with a backend failure only after every       *)
(* backend from the selected one down the priority order has been invoked, *)
(* so the last backend invoked by a job that failed in a backend is the    *)
(* tertiary one.                                                           *)
(***************************************************************************)
C2_FallthroughOnFailure ==
    \A j \in Jobs :
        (Settled(j) /\ result[j].err \in BackendErrors) =>
            /\ invoked[j] # << >>
            /\ invoked[j][Len(invoked[j])] = "sharp"

(***************************************************************************)
(* C3: whenever createGif selects a backend, it is the highest-priority    *)
(* one whose tool is recorded as available at that moment: the primary if  *)
(* ffmpegPath is set, the secondary only if it is not and hasImageMagick   *)
(* is set, the tertiary only if neither is; the backend's own first step   *)
(* is what runs, and a job selects once.                                   *)
(***************************************************************************)
C3_PriorityOrder ==
    [][\A j \in Jobs :
          backend'[j] # backend[j] =>
              /\ backend[j] = "none"
              /\ backend'[j] = "ffmpeg" <=> Truthy(ffmpegPath)
              /\ backend'[j] = "imagemagick" <=>
                     (~Truthy(ffmpegPath) /\ Truthy(hasImageMagick))
              /\ backend'[j] = "sharp" <=>
                     (~Truthy(ffmpegPath) /\ ~Truthy(hasImageMagick))
              /\ invoked'[j] = <<backend'[j]>>
              /\ backend'[j] = "ffmpeg" => pc'[j] \in {"ffmpeg_palettegen", "ffmpeg_single"}
              /\ backend'[j] = "imagemagick" => pc'[j] = "convert_exec"
              /\ backend'[j] = "sharp" => pc'[j] = "sharp_encode"]_vars

\* the secondary backend produced the artifact because the primary tool was
\* recorded as missing
C3_Witness ==
    \E j \in Jobs :
        /\ backend[j] = "imagemagick"
        /\ ffmpegPath = "null"
        /\ hasImageMagick = "true"
        /\ result[j].kind = "return"
        /\ result[j].buffer.backend = "imagemagick"

(***************************************************************************)
(* C4 as stated: no createGif call, whenever it is issued after the        *)
(* construction of the service, selects a lower-priority backend while a   *)
(* higher-priority tool is present on the host: the secondary is selected  *)
(* only on a host without ffmpeg, the tertiary only on a host with         *)
(* neither tool.                                                           *)
(***************************************************************************)
C4_SkipOnlyIfReallyUnavailable ==
    \A j \in Jobs :
        /\ backend[j] = "imagemagick" => ~host.ffmpeg
        /\ backend[j] = "sharp" => (~host.ffmpeg /\ ~host.convert)

(***************************************************************************)
(* C5 as stated: an answer of the /gif route for a job that the tertiary   *)
(* backend served carries the artifact of the first canonical frame alone  *)
(* and reports a frame count of 1.                                         *)
(***************************************************************************)
C5_DegradedModeDetectable ==
    \A j \in Jobs :
        (response[j].status = 200 /\ backend[j] = "sharp") =>
            /\ result[j].buffer.frames = <<processedFrames[j][1]>>
            /\ response[j].frames = 1

(***************************************************************************)
(* C6: cleanup is called at most once per job, exactly once by the time    *)
(* createGif completes for a job whose workspace was created (whether it   *)
(* returns or throws), and never before or during a backend invocation:    *)
(* while a job is inside a backend no cleanup has been called, and cleanup *)
(* is called from where the try block ended.                               *)
(***************************************************************************)
C6_CleanupExactlyOnceAfterChain ==
    \A j \in Jobs :
        /\ cleanupCalls[j] <= 1
        /\ (Settled(j) /\ WorkspaceCreated(j)) => cleanupCalls[j] = 1
        /\ ~WorkspaceCreated(j) => cleanupCalls[j] = 0
        /\ pc[j] \in BackendSteps \cup {"preprocess", "save"} => cleanupCalls[j] = 0
        /\ cleanupCalls[j] = 1 =>
               /\ pc[j] \in {"cleanup_readdir", "cleanup_remove", "returned",
                             "upload", "responded"}
               /\ pending[j].kind \in {"return", "throw"}
               /\ pending[j].kind = "return" => cleanupAt[j] \in BackendSteps

\* a job whose primary backend failed has completed after one cleanup
C6_Witness ==
    \E j \in Jobs :
        /\ Settled(j)
        /\ result[j].err = "ffmpeg"
        /\ cleanupCalls[j] = 1
        /\ cleanupAt[j] \in BackendSteps

(***************************************************************************)
(* C7: a failure while removing the workspace is logged and never raised:  *)
(* createGif completes with the completion of its try block (the artifact  *)
(* returned, or the error of the failed step) whether cleanup failed or    *)
(* not, and a workspace that outlives cleanup has a logged cleanup error.  *)
(***************************************************************************)
C7_CleanupFailureNeverRaised ==
    \A j \in Jobs :
        (Settled(j) /\ cleanupCalls[j] > 0) =>
            /\ result[j] = pending[j]
            /\ result[j].err # "cleanup"
            /\ (SessionId(j) \in dirs \/ WorkspaceFiles(j) # {}) => log[j] # << >>

\* a job returned its artifact although removing its workspace failed
C7_Witness ==
    \E j \in Jobs :
        /\ Settled(j)
        /\ result[j].kind = "return"
        /\ SessionId(j) \in dirs
        /\ log[j] # << >>

(***************************************************************************)
(* C8 as stated: for a quality in {low, medium, high, ultra} createGif     *)
(* resolves that tier's bundle, with the values of the preset table, and   *)
(* for every other value of options.quality it resolves the ultra bundle.  *)
(***************************************************************************)
PresetTable ==
    [low    |-> [colors |-> 64,  dither |-> "FloydSteinberg", effort |-> 3,
                 compressionLevel |-> 9],
     medium |-> [colors |-> 128, dither |-> "FloydSteinberg", effort |-> 5,
                 compressionLevel |-> 6],
     high   |-> [colors |-> 256, dither |-> "FloydSteinberg", effort |-> 8,
                 compressionLevel |-> 3],
     ultra  |-> [colors |-> 256, dither |-> "none", effort |-> 10,
                 compressionLevel |-> 0]]

C8_PresetResolution ==
    \A j \in Jobs :
        Entered(j) =>
            LET tier == IF quality[j] \in Tiers THEN quality[j] ELSE "ultra"
            IN  /\ preset[j] = tier
                /\ \A f \in {"colors", "dither", "effort", "compressionLevel"} :
                       qualityPresets[tier][f] = PresetTable[tier][f]

(***************************************************************************)
(* C9: preprocessing and staging preserve count and order.  Canonical      *)
(* frame i is derived from input image i alone, under the job's preset;    *)
(* once preprocessing is over without a failure there is one canonical     *)
(* frame per input; staged file i is named by index i and, while the       *)
(* workspace is untouched by cleanup, holds canonical frame i; and when a  *)
(* backend is selected one file per input has been staged.                 *)
(***************************************************************************)
C9_CountAndOrderPreserved ==
    \A j \in Jobs :
        /\ Len(processedFrames[j]) <= Len(images[j])
        /\ \A i \in 1..Len(processedFrames[j]) :
               processedFrames[j][i] = CanonicalFrame(images[j][i], preset[j])
        /\ pc[j] \in BackendSteps \cup {"save"} =>
               Len(processedFrames[j]) = Len(images[j])
        /\ Len(frameFiles[j]) <= Len(processedFrames[j])
        /\ \A i \in 1..Len(frameFiles[j]) :
               /\ frameFiles[j][i] = FilePath(SessionId(j), FrameFileName(i - 1))
               /\ cleanupCalls[j] = 0 =>
                      /\ Exists(files, frameFiles[j][i])
                      /\ ReadFile(files, frameFiles[j][i]) = PngOf(processedFrames[j][i])
        /\ backend[j] # "none" => Len(frameFiles[j]) = Len(images[j])

\* two different images were preprocessed and staged, and a backend is running
C9_Witness ==
    \E j \in Jobs :
        /\ pc[j] \in BackendSteps
        /\ Len(images[j]) = 2
        /\ images[j][1] # images[j][2]
        /\ Len(frameFiles[j]) = 2
        /\ ReadFile(files, frameFiles[j][2]).frames[1].src = images[j][2]

(***************************************************************************)
(* C10: fail-fast on an input error.  A job with an image that cannot be   *)
(* decoded stages no frame file, invokes no backend and returns no         *)
(* artifact: it never leaves preprocessing except by failing, createGif    *)
(* throws the decoding error (or the error of fs.mkdir), and the /gif      *)
(* route never answers with success.                                       *)
(***************************************************************************)
HasUndecodable(j) == \E i \in 1..Len(images[j]) : ~Decodable(images[j][i])

C10_FailFastOnInputError ==
    \A j \in Jobs :
        (Entered(j) /\ HasUndecodable(j)) =>
            /\ frameFiles[j] = << >>
            /\ WorkspaceFiles(j) = {}
            /\ invoked[j] = << >>
            /\ execs[j] = << >>
            /\ pc[j] \notin BackendSteps \cup {"save", "upload"}
            /\ pending[j].kind # "return"
            /\ Settled(j) => (result[j].kind = "throw" /\ result[j].err \in {"decode", "mkdir"})
            /\ response[j].status # 200

\* the second image of a job was undecodable: the first had been processed,
\* and createGif threw the decoding error
C10_Witness ==
    \E j \in Jobs :
        /\ Len(images[j]) = 2
        /\ Decodable(images[j][1])
        /\ ~Decodable(images[j][2])
        /\ Len(processedFrames[j]) = 1
        /\ result[j] = Throw("decode")

(***************************************************************************)
(* C11 as stated, for createGif: a call with an empty image sequence is    *)
(* rejected as an input error, so it never creates a workspace directory   *)
(* and never returns an artifact.                                          *)
(***************************************************************************)
C11_EmptySequenceRejected ==
    \A j \in Jobs :
        (Entered(j) /\ images[j] = << >>) =>
            /\ ~WorkspaceCreated(j)
            /\ SessionId(j) \notin dirs
            /\ result[j].kind # "return"

(***************************************************************************)
(* C14 as stated: a job that the primary backend served ran exactly two    *)
(* invocations of ffmpeg, whatever its tier: palettegen limited to the     *)
(* preset's colors, then paletteuse.                                       *)
(***************************************************************************)
C14_TwoPassesForEveryTier ==
    \A j \in Jobs :
        (backend[j] = "ffmpeg" /\ pending[j].kind = "return") =>
            /\ Len(execs[j]) = 2
            /\ execs[j][1].cmd = "palettegen"
            /\ execs[j][2].cmd = "paletteuse"

(***************************************************************************)
(* C14 amended: the primary backend runs two invocations only for the      *)
(* preset whose method is `maximum` (ultra): palettegen limited to         *)
(* preset.colors, then paletteuse with dither none (the dithering mode of  *)
(* ultra), and the second starts only when the first has written the       *)
(* palette.  For every other preset it runs one invocation, which builds   *)
(* the palette limited to preset.colors and encodes with the preset's      *)
(* dithering mode (none, or floyd_steinberg) in a single pass.             *)
(***************************************************************************)
IsPrefix(s, t) == Len(s) <= Len(t) /\ \A i \in 1..Len(s) : s[i] = t[i]

C14_TwoPassesForUltraOnly ==
    \A j \in Jobs :
        backend[j] = "ffmpeg" =>
            LET p == preset[j]
                plan == IF PresetMethod(p) = "maximum"
                        THEN <<Exec("palettegen", "256", "n/a"),
                               Exec("paletteuse", "n/a", "none")>>
                        ELSE <<Exec("single", ColorsArg(p),
                                    IF p \in Tiers /\ qualityPresets[p].dither = "none"
                                    THEN "none" ELSE "floyd_steinberg")>>
            IN  /\ PresetMethod(p) = "maximum" <=> p = "ultra"
                /\ IsPrefix(execs[j], plan)
                /\ (pc[j] = "ffmpeg_read" \/ pending[j].kind = "return") => execs[j] = plan
                /\ pc[j] = "ffmpeg_paletteuse" =>
                       /\ Len(execs[j]) = 1
                       /\ Exists(files, FilePath(SessionId(j), FileName("palette", 0)))

\* an ultra job returned the artifact of the two passes
C14_Witness ==
    \E j \in Jobs :
        /\ backend[j] = "ffmpeg"
        /\ preset[j] = "ultra"
        /\ result[j].kind = "return"
        /\ Len(execs[j]) = 2

(***************************************************************************)
(* C18 as stated: the frame rate handed to the primary encoder,            *)
(* round(1000 / delay), is at least 1 for every delay of a job.            *)
(***************************************************************************)
C18_FrameRateAtLeastOne ==
    \A j \in Jobs : backend[j] = "ffmpeg" => Fps(delay[j]) >= 1

(***************************************************************************)
(* Vocabulary of the document properties.                                  *)
(***************************************************************************)
\* the document pipeline of the job returned a buffer
DocumentReturned(j) == pdfResult[j].kind = "return"

\* the smallest whole number that is at least n / p, for p > 0
Ceil(n, p) == (n + p - 1) \div p

\* the g-th group of p consecutive frames, the last one possibly shorter
GroupOf(imgs, g, p) ==
    SubSeq(imgs, (g - 1) * p + 1, IF g * p < Len(imgs) THEN g * p ELSE Len(imgs))

(***************************************************************************)
(* C12: a document returned by createPdf has exactly one page per input    *)
(* frame, in input order; a document returned by createComicPdf with       *)
(* group size p >= 2 over n frames has ceil(n/p) pages, page g made of the *)
(* g-th group of p consecutive frames, and a group of exactly one frame    *)
(* was handed to createPdf as that frame itself.                           *)
(***************************************************************************)
C12_PageCount ==
    \A j \in Jobs :
        DocumentReturned(j) =>
            LET n     == Len(images[j])
                p     == panelsPerPage[j]
                pages == pdfResult[j].pages
            IN  /\ route[j] = "pdf" =>
                      /\ Len(pages) = n
                      /\ \A i \in 1..n : pages[i].srcs = <<images[j][i]>>
                /\ (route[j] = "comic" /\ p >= 2) =>
                      /\ Len(pages) = Ceil(n, p)
                      /\ \A g \in 1..Len(pages) :
                            /\ pages[g].srcs = GroupOf(images[j], g, p)
                            /\ Len(GroupOf(images[j], g, p)) = 1 =>
                                  pdfImages[j][g] = Item(images[j][(g - 1) * p + 1])

\* five frames grouped by two gave a document of three pages
C12_Witness ==
    \E j \in Jobs :
        /\ DocumentReturned(j)
        /\ route[j] = "comic"
        /\ Len(images[j]) = 5
        /\ panelsPerPage[j] = 2
        /\ Len(pdfResult[j].pages) = 3
        /\ Len(pdfResult[j].pages[3].srcs) = 1

(***************************************************************************)
(* Page layout vocabulary: the drawn rectangle of a page.                  *)
(***************************************************************************)
\* all pages added so far to any job's document
AddedPages == UNION {{pdfPages[j][i] : i \in 1..Len(pdfPages[j])} : j \in Jobs}

\* the lower and the upper edge of an extent that starts at `at`
Lower(at, extent) == MathMin(at, Plus(at, extent))

Upper(at, extent) == IF Leq(at, Plus(at, extent)) THEN Plus(at, extent) ELSE at

KeepsAspectRatio(pg) == Over(pg.draw.width, pg.w) = Over(pg.draw.height, pg.h)

WithinMargins(pg) ==
    /\ Leq(Whole(pg.margin), Lower(pg.draw.x, pg.draw.width))
    /\ Leq(Upper(pg.draw.x, pg.draw.width), Whole(pg.pageWidth - pg.margin))
    /\ Leq(Whole(pg.margin), Lower(pg.draw.y, pg.draw.height))
    /\ Leq(Upper(pg.draw.y, pg.draw.height), Whole(pg.pageHeight - pg.margin))

TouchesOneAxis(pg) ==
    \/ pg.draw.width = Whole(pg.pageWidth - 2 * pg.margin)
    \/ pg.draw.height = Whole(pg.pageHeight - 2 * pg.margin)

Centered(pg) ==
    /\ Plus(Times(2, pg.draw.x), pg.draw.width) = Whole(pg.pageWidth)
    /\ Plus(Times(2, pg.draw.y), pg.draw.height) = Whole(pg.pageHeight)

LargestFitCentered(pg) ==
    /\ KeepsAspectRatio(pg)
    /\ WithinMargins(pg)
    /\ TouchesOneAxis(pg)
    /\ Centered(pg)

\* the margins leave an area of the page to draw in
MarginsLeaveArea(pg) ==
    /\ 2 * pg.margin < pg.pageWidth
    /\ 2 * pg.margin < pg.pageHeight

(***************************************************************************)
(* C16 as stated: on every page added, for every page size and margin, the *)
(* drawn image keeps the embedded image's aspect ratio, lies within the    *)
(* page minus the margins, touches that area on one axis at least, and is  *)
(* centered on both axes.                                                  *)
(***************************************************************************)
C16_LayoutForEveryMargin == \A pg \in AddedPages : LargestFitCentered(pg)

(***************************************************************************)
(* C16 amended: the same, on every page whose margins leave an area, that  *)
(* is, twice the margin is less than the page's width and its height.      *)
(***************************************************************************)
C16_LayoutWhenMarginsLeaveArea ==
    \A pg \in AddedPages : MarginsLeaveArea(pg) => LargestFitCentered(pg)

\* a page with a margin where the height limits the image, and one where
\* the width does
C16_Witness ==
    /\ \E pg \in AddedPages :
          /\ pg.margin > 0
          /\ MarginsLeaveArea(pg)
          /\ pg.draw.height = Whole(pg.pageHeight - 2 * pg.margin)
          /\ pg.draw.width # Whole(pg.pageWidth - 2 * pg.margin)
    /\ \E pg \in AddedPages :
          /\ pg.margin > 0
          /\ MarginsLeaveArea(pg)
          /\ pg.draw.width = Whole(pg.pageWidth - 2 * pg.margin)
          /\ pg.draw.height # Whole(pg.pageHeight - 2 * pg.margin)

(***************************************************************************)
(* Panel grid vocabulary.                                                  *)
(***************************************************************************)
\* the composited pages among createComicPdf's groupedImages
CompositedPages ==
    UNION {{groupedImages[j][g] : g \in 1..Len(groupedImages[j])} : j \in Jobs}
        \ {it \in UNION {{groupedImages[j][g] : g \in 1..Len(groupedImages[j])} : j \in Jobs} :
              it.cells = << >>}

CellWithinMargins(it, c) ==
    /\ c.left >= CanvasMargin
    /\ c.top >= CanvasMargin
    /\ c.left + c.width <= it.w - CanvasMargin
    /\ c.top + c.height <= it.h - CanvasMargin

CellsDisjoint(c, e) ==
    \/ c.left + c.width <= e.left
    \/ e.left + e.width <= c.left
    \/ c.top + c.height <= e.top
    \/ e.top + e.height <= c.top

(***************************************************************************)
(* C17: in every composited page of k >= 2 panels, panel i (from 0) is in  *)
(* row floor(i/2) and column i mod 2 of the grid, rows lying one below the *)
(* other and columns side by side; every cell lies within the canvas       *)
(* inside the fixed margins; two different cells do not overlap.           *)
(***************************************************************************)
C17_PanelGrid ==
    \A it \in CompositedPages :
        /\ Len(it.cells) >= 2
        /\ \A i \in 1..Len(it.cells) :
              /\ it.cells[i].row = (i - 1) \div 2
              /\ it.cells[i].col = (i - 1) % 2
              /\ CellWithinMargins(it, it.cells[i])
        /\ \A i, k \in 1..Len(it.cells) :
              /\ it.cells[i].row < it.cells[k].row => it.cells[i].top < it.cells[k].top
              /\ it.cells[i].col < it.cells[k].col => it.cells[i].left < it.cells[k].left
              /\ i # k => CellsDisjoint(it.cells[i], it.cells[k])

(***************************************************************************)
(* C20: the grouping loop of createComicPdf terminates whenever it is      *)
(* started on a non-empty image sequence, whatever panelsPerPage is.       *)
(***************************************************************************)
C20_GroupingLoopTerminates ==
    \A j \in Jobs :
        (pdfPc[j] = "comic_loop" /\ images[j] # << >>) ~> (pdfPc[j] # "comic_loop")

(***************************************************************************)
(* Vocabulary of the properties of /both and /from-urls.                   *)
(***************************************************************************)
\* pipeline k of the job has returned its artifact
Produced(j, k) ==
    IF k = "gif" THEN result[j].kind = "return" ELSE pdfResult[j].kind = "return"

\* pipeline k of the job has failed with error e
FailedWith(j, k, e) ==
    IF k = "gif"
    THEN result[j].kind = "throw" /\ result[j].err = e
    ELSE pdfResult[j].kind = "throw" /\ pdfResult[j].err = e

\* pipeline k of the job was started and has not completed
Running(j, k) ==
    IF k = "gif"
    THEN pc[j] # "idle" /\ result[j].kind = "none"
    ELSE pdfPc[j] # "idle" /\ pdfResult[j].kind = "none"

\* the artifacts of the job that are stored
PublishedOf(j) == {a \in published : a.job = j}

(***************************************************************************)
(* C13: in a /both request the two pipelines are independent tasks.  When  *)
(* one has failed, the other, while it has not completed, can still take   *)
(* its next step, and the animation pipeline, once it has a workspace,     *)
(* completes only after its cleanup was called once; the Promise.all       *)
(* rejects with the error of a pipeline that failed, and the handler       *)
(* answers with that error; the Promise.all is fulfilled exactly when both *)
(* pipelines have returned.                                                *)
(***************************************************************************)
C13_IndependentPipelines ==
    \A j \in Jobs :
        route[j] = "both" /\ hpc[j] # "idle" /\ response[j].status # 400 =>
            /\ Running(j, "gif") => ENABLED BothGifStep(j)
            /\ Running(j, "pdf") => ENABLED BothPdfStep(j)
            /\ (Settled(j) /\ WorkspaceCreated(j)) => cleanupCalls[j] = 1
            /\ joined[j].kind = "return" <=> (Produced(j, "gif") /\ Produced(j, "pdf"))
            /\ joined[j].kind = "throw" <=>
                  (result[j].kind = "throw" \/ pdfResult[j].kind = "throw")
            /\ joined[j].kind = "throw" =>
                  /\ \E k \in Kinds : FailedWith(j, k, joined[j].err)
                  /\ hpc[j] = "responded" =>
                        response[j] = Answer(500, 0, joined[j].err)

\* the document pipeline failed, the request was answered with its error,
\* and the animation pipeline has still returned its GIF and removed its
\* workspace
C13_Witness ==
    \E j \in Jobs :
        /\ route[j] = "both"
        /\ joined[j] = Throw(PdfThrow.err)
        /\ response[j] = Answer(500, 0, PdfThrow.err)
        /\ Produced(j, "gif")
        /\ cleanupCalls[j] = 1
        /\ SessionId(j) \notin dirs

(***************************************************************************)
(* C19: in a request that asks for both artifacts (/both, or /from-urls    *)
(* with outputFormat 'both'), storageService.upload is called for an       *)
(* artifact only after both artifacts have been produced, and a request    *)
(* answered with an error has published nothing.                           *)
(***************************************************************************)
C19_NoPartialPublication ==
    \A j \in Jobs :
        route[j] \in {"both", "urls_both"} =>
            /\ \A k \in Kinds :
                  uploads[j][k] # "none" => \A o \in Kinds : Produced(j, o)
            /\ response[j].status >= 400 => PublishedOf(j) = {}

(***************************************************************************)
(* Vocabulary of workspace exclusivity.                                    *)
(***************************************************************************)
\* what the animation pipeline of the job holds: a step of the pipeline
\* changes it, a step of anything else does not
OwnState(j) ==
    <<pc[j], idx[j], processedFrames[j], frameFiles[j], backend[j], invoked[j],
      execs[j], pending[j], result[j], listing[j], cleanupCalls[j], log[j]>>

\* the workspace of the job: whether its directory exists, and its files
Workspace(j) == [exists |-> SessionId(j) \in dirs, files |-> WorkspaceFiles(j)]

\* the canonical frames of the job's own images
OwnFrames(j) == [i \in 1..Len(images[j]) |-> CanonicalFrame(images[j][i], preset[j])]

\* no two invocations share a directory, every directory and file belongs to
\* an invocation, a staged frame holds a frame of the job it is staged for,
\* and every frame of the GIF a job returns is a frame of its own
WorkspacesApart ==
    /\ \A j, k \in Jobs : (j # k /\ Entered(j) /\ Entered(k)) => SessionId(j) # SessionId(k)
    /\ dirs \subseteq {SessionId(j) : j \in {k \in Jobs : Entered(k)}}
    /\ \A f \in files : \E j \in Jobs : Entered(j) /\ f.dir = SessionId(j)
    /\ \A j \in Jobs :
          /\ \A f \in WorkspaceFiles(j) :
                f.name.kind = "frame" =>
                    /\ f.name.i < Len(images[j])
                    /\ f.data = PngOf(OwnFrames(j)[f.name.i + 1])
          /\ result[j].kind = "return" =>
                \A i \in 1..Len(result[j].buffer.frames) :
                    \E n \in 1..Len(images[j]) : result[j].buffer.frames[i] = OwnFrames(j)[n]

\* a step that changes the workspace of a job (creates or removes its
\* directory, writes or deletes a file in it) is a step of that job's own
\* pipeline and of no other's
TouchedByOwnerOnly ==
    \A j \in Jobs :
        Workspace(j)' # Workspace(j) =>
            /\ OwnState(j)' # OwnState(j)
            /\ \A k \in Jobs \ {j} : OwnState(k)' = OwnState(k)

(***************************************************************************)
(* C15: every createGif invocation has one workspace directory of its own, *)
(* and under every interleaving of a /both request with another caller's   *)
(* createGif no job creates, writes, reads or deletes anything in the      *)
(* workspace of the other.                                                 *)
(***************************************************************************)
C15_WorkspaceExclusivity == [](WorkspacesApart) /\ [][TouchedByOwnerOnly]_vars

\* the two jobs have staged frames at the same time, each in its own
\* directory, and the /both job is about to delete its files
C15_Witness ==
    /\ route["j1"] = "both"
    /\ route["j2"] = "direct"
    /\ WorkspaceFiles("j1") # {}
    /\ WorkspaceFiles("j2") # {}
    /\ pc["j1"] = "cleanup_remove"
    /\ pc["j2"] \in BackendSteps

====
